---- MODULE Spec2Model ----
(***************************************************************************)
(* Model of the oak_crypto session facade (src/oak_crypto/src/lib.rs):     *)
(* SenderCryptoProvider / RecipientCryptoProvider and the four one-shot    *)
(* wrappers that alternate request and response messages of a              *)
(* bidirectional HPKE session.                                             *)
(*                                                                         *)
(* The modules `hpke` and `aead` that lib.rs calls (setup_base_sender,     *)
(* setup_base_recipient, seal, open) are modelled from the specification   *)
(* as an ideal AEAD over symbolic keys: a ciphertext opens exactly under   *)
(* the key, nonce and associated data it was sealed with.                  *)
(***************************************************************************)
EXTENDS Integers, Sequences, FiniteSets, TLC

\* ------------------------------------------------------------------ bounds

\* create_encryptor calls (sender sessions) explored
NSessions == 2
\* create_decryptor calls (recipient sessions) explored
NRSessions == 2
\* successful encrypt/decrypt operations explored, over all sessions
MaxOps == 5
\* width of the AEAD sequence counter in the model (64 in the library)
SeqBits == 3
\* extra high bits of the nonce above the counter (the nonce is 96 bits wide)
NoncePadBits == 1

Sessions == 1..NSessions
RSessions == 1..NRSessions
NonceBits == SeqBits + NoncePadBits

\* The (plaintext, associated data) pairs given to encrypt, and the associated
\* data given to decrypt.
Messages == {<<"hello", "">>, <<"", "v=1">>}
AADs == {"", "v=1"}

\* ------------------------------------------------- byte surfaces and keys

OAK_HPKE_INFO == "Oak Hybrid Public Key Encryption v1"

\* A P-256 point: the public half of a static key pair, or of the ephemeral
\* key pair of a sender session.
StaticPoint(k) == [kind |-> "static", id |-> k]
EphPoint(s) == [kind |-> "eph", id |-> s]
\* 0x04 followed by 64 zero bytes: a 65-byte buffer that is no curve point.
InvalidPoint == [kind |-> "invalid", id |-> 0]

\* The key pair KeyPair::generate() gave the recipient provider, and the key
\* pair of some other party.
RecipientKeyPairId == 1
OtherKeyPairId == 2

KeyPair_get_serialized_public_key(key_pair) == StaticPoint(key_pair)

\* SEC1 decoding: the point, or InvalidPublicKey.
deserialize_public_key(bytes) ==
    IF bytes.kind \in {"static", "eph"}
    THEN [ok |-> TRUE, point |-> bytes]
    ELSE [ok |-> FALSE, err |-> "InvalidPublicKey"]

\* ECDH: the secret of (private half of a, public b) is that of (private
\* half of b, public a).
ecdh(a, b) == {a, b}

PointNum(p) == IF p.kind = "eph" THEN 2 * p.id ELSE (2 * p.id) + 1

SecretNum(S) ==
    LET f[T \in SUBSET S] ==
            IF T = {} THEN 0
            ELSE LET x == CHOOSE x \in T : TRUE
                 IN  PointNum(x) + f[T \ {x}]
    IN  f[S]

LabelNum(label) ==
    CASE label = "request_base_nonce" -> 1
      [] label = "response_base_nonce" -> 2
      [] OTHER -> 0

Pow2(n) == 2 ^ n

\* HKDF-Expand under a label: a key is the symbolic value, a base nonce is a
\* NonceBits-bit number fixed by secret, info and label.
derive_key(secret, info, label) == [label |-> label, secret |-> secret, info |-> info]
derive_base_nonce(secret, info, label) ==
    ((3 * SecretNum(secret)) + (5 * LabelNum(label)) + Len(info)) % Pow2(NonceBits)

\* --------------------------------------------------------- AEAD contexts

\* seq after increment that is the fatal overflow (2^64 - 1 in the library)
SeqLimit == Pow2(SeqBits) - 1

NewContext(secret, info, key_label, nonce_label) ==
    [key |-> derive_key(secret, info, key_label),
     base_nonce |-> derive_base_nonce(secret, info, nonce_label),
     seq |-> 0]

RECURSIVE XorBits(_, _, _)
XorBits(a, b, n) ==
    IF n = 0 THEN 0
    ELSE (((a % 2) + (b % 2)) % 2) + (2 * XorBits(a \div 2, b \div 2, n - 1))

\* nonce = base_nonce XOR seq
compute_nonce(ctx) == XorBits(ctx.base_nonce, ctx.seq, NonceBits)

Err(e) == [ok |-> FALSE, err |-> e]

\* AES-GCM as an ideal AEAD: the ciphertext names what it was sealed under.
aead_seal(key, nonce, aad, plaintext) ==
    [key |-> key, nonce |-> nonce, aad |-> aad, pt |-> plaintext, tag_ok |-> TRUE]

aead_open(key, nonce, aad, ciphertext) ==
    IF ciphertext.tag_ok /\ ciphertext.key = key /\ ciphertext.nonce = nonce
       /\ ciphertext.aad = aad
    THEN [ok |-> TRUE, pt |-> ciphertext.pt]
    ELSE Err("AuthenticationFailure")

\* SenderContext::seal / RecipientResponseContext::seal
seal(ctx, plaintext, associated_data) ==
    IF ctx.seq + 1 >= SeqLimit
    THEN Err("NonceOverflow")
    ELSE [ok |-> TRUE,
          ct |-> aead_seal(ctx.key, compute_nonce(ctx), associated_data, plaintext),
          ctx |-> [ctx EXCEPT !.seq = @ + 1]]

\* Faulty variant of open: the counter advances on a failed open as well.
open_counts_failure(ctx, ciphertext, associated_data) ==
    LET r == aead_open(ctx.key, compute_nonce(ctx), associated_data, ciphertext)
    IN  IF ~r.ok THEN [ok |-> FALSE, err |-> r.err, ctx |-> [ctx EXCEPT !.seq = @ + 1]]
        ELSE IF ctx.seq + 1 >= SeqLimit THEN Err("NonceOverflow")
        ELSE [ok |-> TRUE, pt |-> r.pt, ctx |-> [ctx EXCEPT !.seq = @ + 1]]

\* RecipientContext::open / SenderResponseContext::open: ctx in the result
\* is the context as the call leaves it.
open(ctx, ciphertext, associated_data) ==
    LET r == aead_open(ctx.key, compute_nonce(ctx), associated_data, ciphertext)
    IN  IF ~r.ok THEN [ok |-> FALSE, err |-> r.err, ctx |-> ctx]
        ELSE IF ctx.seq + 1 >= SeqLimit THEN Err("NonceOverflow")
        ELSE [ok |-> TRUE, pt |-> r.pt, ctx |-> [ctx EXCEPT !.seq = @ + 1]]

\* ------------------------------------------------------------ HPKE setup

\* eph is the ephemeral key pair the CSPRNG gives this call.
setup_base_sender(serialized_recipient_public_key, info, eph) ==
    LET pk == deserialize_public_key(serialized_recipient_public_key)
    IN  IF ~pk.ok THEN pk
        ELSE LET secret == ecdh(EphPoint(eph), pk.point)
             IN  [ok |-> TRUE,
                  enc |-> EphPoint(eph),
                  sender_context |->
                      NewContext(secret, info, "request_key", "request_base_nonce"),
                  sender_response_context |->
                      NewContext(secret, info, "response_key", "response_base_nonce")]

setup_base_recipient(serialized_encapsulated_public_key, key_pair, info) ==
    LET pk == deserialize_public_key(serialized_encapsulated_public_key)
    IN  IF ~pk.ok THEN pk
        ELSE LET secret == ecdh(StaticPoint(key_pair), pk.point)
             IN  [ok |-> TRUE,
                  recipient_context |->
                      NewContext(secret, info, "request_key", "request_base_nonce"),
                  recipient_response_context |->
                      NewContext(secret, info, "response_key", "response_base_nonce")]

\* -------------------------------------------------------- session facade

\* SenderCryptoProvider::new
SenderCryptoProvider_new(serialized_recipient_public_key) ==
    [serialized_recipient_public_key |-> serialized_recipient_public_key]

\* RecipientCryptoProvider::new
RecipientCryptoProvider_new == [key_pair |-> RecipientKeyPairId]

RecipientCryptoProvider_get_serialized_public_key(self) ==
    KeyPair_get_serialized_public_key(self.key_pair)

\* The wrapper a successful create_encryptor returns.
\* Faulty variant of create_encryptor's result: the request context is used
\* for both directions.
create_encryptor_wrapper_same_ctx(setup) ==
    [role |-> "SenderRequestEncryptor",
     sender_context |-> setup.sender_context,
     sender_response_context |-> setup.sender_context]

create_encryptor_wrapper(setup) ==
    [role |-> "SenderRequestEncryptor",
     sender_context |-> setup.sender_context,
     sender_response_context |-> setup.sender_response_context]

\* Faulty variant of create_encryptor: the provider's first ephemeral key
\* pair is used again for every session.
SenderCryptoProvider_create_encryptor_reused_key(self, eph) ==
    LET setup == setup_base_sender(self.serialized_recipient_public_key,
                                   OAK_HPKE_INFO, 1)
    IN  IF ~setup.ok THEN Err(setup.err)
        ELSE [ok |-> TRUE,
              enc |-> setup.enc,
              next |-> create_encryptor_wrapper(setup)]

\* Faulty variant of create_encryptor: the encapsulated key handed to the
\* caller comes from another key generation than the contexts.
SenderCryptoProvider_create_encryptor_other_enc(self, eph) ==
    LET setup == setup_base_sender(self.serialized_recipient_public_key,
                                   OAK_HPKE_INFO, eph)
    IN  IF ~setup.ok THEN Err(setup.err)
        ELSE [ok |-> TRUE,
              enc |-> EphPoint(eph + NSessions),
              next |-> create_encryptor_wrapper(setup)]

SenderCryptoProvider_create_encryptor(self, eph) ==
    LET setup == setup_base_sender(self.serialized_recipient_public_key,
                                   OAK_HPKE_INFO, eph)
    IN  IF ~setup.ok THEN Err(setup.err)
        ELSE [ok |-> TRUE,
              enc |-> setup.enc,
              next |-> create_encryptor_wrapper(setup)]

\* Faulty variants of encrypt's result: another encryptor instead of the
\* response decryptor, and the request context as it was before the seal.
sender_encrypt_next_same(self, ctx) ==
    [role |-> "SenderRequestEncryptor",
     sender_context |-> ctx,
     sender_response_context |-> self.sender_response_context]

sender_encrypt_next_stale(self, ctx) ==
    [role |-> "SenderResponseDecryptor",
     sender_context |-> self.sender_context,
     sender_response_context |-> self.sender_response_context]

\* The wrapper a successful SenderRequestEncryptor::encrypt returns.
sender_encrypt_next(self, ctx) ==
    [role |-> "SenderResponseDecryptor",
     sender_context |-> ctx,
     sender_response_context |-> self.sender_response_context]

\* Faulty variant of encrypt: the error of seal is swallowed and the caller
\* gets an empty message and a wrapper over the same contexts.
SenderRequestEncryptor_encrypt_ignores_error(self, plaintext, associated_data) ==
    LET request == seal(self.sender_context, plaintext, associated_data)
    IN  IF ~request.ok
        THEN [ok |-> TRUE,
              out |-> aead_seal(self.sender_context.key, 0, "", ""),
              next |-> sender_encrypt_next(self, self.sender_context)]
        ELSE [ok |-> TRUE,
              out |-> request.ct,
              next |-> sender_encrypt_next(self, request.ctx)]

SenderRequestEncryptor_encrypt(self, plaintext, associated_data) ==
    LET request == seal(self.sender_context, plaintext, associated_data)
    IN  IF ~request.ok THEN Err(request.err)
        ELSE [ok |-> TRUE,
              out |-> request.ct,
              next |-> sender_encrypt_next(self, request.ctx)]

\* The wrapper a successful SenderResponseDecryptor::decrypt returns.
\* Faulty variants of decrypt's result: an encryptor whose request context
\* starts over, and another decryptor instead of the encryptor.
sender_decrypt_next_rewound(self, ctx) ==
    [role |-> "SenderRequestEncryptor",
     sender_context |-> [self.sender_context EXCEPT !.seq = 0],
     sender_response_context |-> ctx]

sender_decrypt_next_same(self, ctx) ==
    [role |-> "SenderResponseDecryptor",
     sender_context |-> self.sender_context,
     sender_response_context |-> ctx]

sender_decrypt_next(self, ctx) ==
    [role |-> "SenderRequestEncryptor",
     sender_context |-> self.sender_context,
     sender_response_context |-> ctx]

SenderResponseDecryptor_decrypt(self, ciphertext, associated_data) ==
    LET response == open(self.sender_response_context, ciphertext, associated_data)
    IN  IF ~response.ok THEN Err(response.err)
        ELSE [ok |-> TRUE,
              out |-> response.pt,
              next |-> sender_decrypt_next(self, response.ctx)]

\* Faulty variants of create_decryptor's result: the two contexts swapped, and
\* a response encryptor handed out before any request was decrypted.
create_decryptor_wrapper_swapped(setup) ==
    [role |-> "RecipientRequestDecryptor",
     recipient_context |-> setup.recipient_response_context,
     recipient_response_context |-> setup.recipient_context]

create_decryptor_wrapper_encryptor(setup) ==
    [role |-> "RecipientResponseEncryptor",
     recipient_context |-> setup.recipient_context,
     recipient_response_context |-> setup.recipient_response_context]

\* The wrapper a successful create_decryptor returns.
create_decryptor_wrapper(setup) ==
    [role |-> "RecipientRequestDecryptor",
     recipient_context |-> setup.recipient_context,
     recipient_response_context |-> setup.recipient_response_context]

\* Faulty variant of create_decryptor: the setup error is not propagated and
\* the contexts are built from the bytes as they came.
RecipientCryptoProvider_create_decryptor_unchecked(self, serialized_encapsulated_public_key) ==
    LET secret == ecdh(StaticPoint(self.key_pair), serialized_encapsulated_public_key)
    IN  [ok |-> TRUE,
         next |-> create_decryptor_wrapper(
                      [recipient_context |->
                           NewContext(secret, OAK_HPKE_INFO, "request_key",
                                      "request_base_nonce"),
                       recipient_response_context |->
                           NewContext(secret, OAK_HPKE_INFO, "response_key",
                                      "response_base_nonce")])]

RecipientCryptoProvider_create_decryptor(self, serialized_encapsulated_public_key) ==
    LET setup == setup_base_recipient(serialized_encapsulated_public_key,
                                      self.key_pair, OAK_HPKE_INFO)
    IN  IF ~setup.ok THEN Err(setup.err)
        ELSE [ok |-> TRUE, next |-> create_decryptor_wrapper(setup)]

\* Faulty variant of decrypt's result: the request context as it was before
\* the open.
recipient_decrypt_next_stale(self, ctx) ==
    [role |-> "RecipientResponseEncryptor",
     recipient_context |-> self.recipient_context,
     recipient_response_context |-> self.recipient_response_context]

\* The wrapper a successful RecipientRequestDecryptor::decrypt returns.
\* Faulty variant of decrypt's result: the response context is advanced too.
recipient_decrypt_next_both(self, ctx) ==
    [role |-> "RecipientResponseEncryptor",
     recipient_context |-> ctx,
     recipient_response_context |->
         [self.recipient_response_context EXCEPT !.seq = @ + 1]]

recipient_decrypt_next(self, ctx) ==
    [role |-> "RecipientResponseEncryptor",
     recipient_context |-> ctx,
     recipient_response_context |-> self.recipient_response_context]

\* Faulty variants of decrypt: opening under the response context, and
\* opening with empty associated data instead of the caller's.
RecipientRequestDecryptor_decrypt_response_ctx(self, ciphertext, associated_data) ==
    LET plaintext == open(self.recipient_response_context, ciphertext, associated_data)
    IN  IF ~plaintext.ok THEN Err(plaintext.err)
        ELSE [ok |-> TRUE,
              out |-> plaintext.pt,
              next |-> [role |-> "RecipientResponseEncryptor",
                        recipient_context |-> self.recipient_context,
                        recipient_response_context |-> plaintext.ctx]]

RecipientRequestDecryptor_decrypt_no_aad(self, ciphertext, associated_data) ==
    LET plaintext == open(self.recipient_context, ciphertext, "")
    IN  IF ~plaintext.ok THEN Err(plaintext.err)
        ELSE [ok |-> TRUE,
              out |-> plaintext.pt,
              next |-> [role |-> "RecipientResponseEncryptor",
                        recipient_context |-> plaintext.ctx,
                        recipient_response_context |-> self.recipient_response_context]]

RecipientRequestDecryptor_decrypt(self, ciphertext, associated_data) ==
    LET plaintext == open(self.recipient_context, ciphertext, associated_data)
    IN  IF ~plaintext.ok THEN Err(plaintext.err)
        ELSE [ok |-> TRUE,
              out |-> plaintext.pt,
              next |-> recipient_decrypt_next(self, plaintext.ctx)]

\* The wrapper a successful RecipientResponseEncryptor::encrypt returns.
\* Faulty variant of encrypt's result: another encryptor instead of the
\* decryptor.
recipient_encrypt_next_same(self, ctx) ==
    [role |-> "RecipientResponseEncryptor",
     recipient_context |-> self.recipient_context,
     recipient_response_context |-> ctx]

recipient_encrypt_next(self, ctx) ==
    [role |-> "RecipientRequestDecryptor",
     recipient_context |-> self.recipient_context,
     recipient_response_context |-> ctx]

RecipientResponseEncryptor_encrypt(self, plaintext, associated_data) ==
    LET response == seal(self.recipient_response_context, plaintext, associated_data)
    IN  IF ~response.ok THEN Err(response.err)
        ELSE [ok |-> TRUE,
              out |-> response.ct,
              next |-> recipient_encrypt_next(self, response.ctx)]

\* Faulty variant: the call borrows the wrapper and leaves it with the caller.
consume_nothing(objs, self) == objs

\* encrypt and decrypt take `mut self` by value: the call moves the wrapper
\* out of the caller's hands.
consume(objs, self) == objs \ {self}

\* Faulty variant: a failed call hands the wrapper back.
after_call_keeps_wrapper(side, self, r, entry) ==
    IF r.ok
    THEN [side EXCEPT !.objs = (@ \ {self}) \cup {r.next},
                      !.hist = Append(@, entry)]
    ELSE [side EXCEPT !.status = "failed", !.err = r.err]

\* What a side of a session holds after a call on wrapper `self` returned r:
\* the wrapper is gone, and a successful call hands back the next one.
after_call(side, self, r, entry) ==
    IF r.ok
    THEN [side EXCEPT !.objs = consume(@, self) \cup {r.next},
                      !.hist = Append(@, entry)]
    ELSE [side EXCEPT !.objs = consume(@, self),
                      !.status = "failed",
                      !.err = r.err]

\* Faulty variant: one session state shared by all sessions of a provider.
store_shared(sessions, s, side) == [t \in DOMAIN sessions |-> side]

\* Every wrapper owns its contexts (struct fields held by value): a call
\* writes the state of its own session only.
store(sessions, s, side) == [sessions EXCEPT ![s] = side]

\* ------------------------------------------------------------------ state

VARIABLES
    sender_provider,     \* the SenderCryptoProvider
    recipient_provider,  \* the RecipientCryptoProvider
    sender,              \* sender[s]: the sender side of the s-th create_encryptor call
    recipient,           \* recipient[r]: the recipient side of the r-th create_decryptor call
    ret                  \* what the most recent call was given and returned

vars == <<sender_provider, recipient_provider, sender, recipient, ret>>

NoKey == [label |-> "none", secret |-> {}, info |-> ""]
NoCt == [key |-> NoKey, nonce |-> 0, aad |-> "", pt |-> "", tag_ok |-> FALSE]

\* A side of a session: the wrappers the caller holds (objs), and a record of
\* what happened on it: the successful operations in order (hist), whether it
\* is live, failed or dropped, and the error of the failed call.
NoSide == [status |-> "none", enc |-> InvalidPoint, objs |-> {}, hist |-> <<>>,
           err |-> "Ok"]
NewSide(enc, wrapper) ==
    [status |-> "live", enc |-> enc, objs |-> {wrapper}, hist |-> <<>>, err |-> "Ok"]

\* A successful operation: its plaintext, associated data and ciphertext, and
\* the sequence number its context was at when it was called.
Entry(op, seq, pt, aad, ct) ==
    [op |-> op, seq |-> seq, pt |-> pt, aad |-> aad, ct |-> ct]
Ret(op, s, r, ct, aad) ==
    [op |-> op, sess |-> s, err |-> IF r.ok THEN "Ok" ELSE r.err, ct |-> ct, aad |-> aad]

Encrypts(h) == SelectSeq(h, LAMBDA e : e.op = "encrypt")
Decrypts(h) == SelectSeq(h, LAMBDA e : e.op = "decrypt")

\* The ciphertexts the encrypts recorded in h returned.
SealedIn(h) == {h[i].ct : i \in {j \in DOMAIN h : h[j].op = "encrypt"}}

\* Every ciphertext some encrypt of some session has returned.
Sealed ==
    UNION ({SealedIn(sender[s].hist) : s \in Sessions}
           \cup {SealedIn(recipient[r].hist) : r \in RSessions})

RECURSIVE SumLen(_, _)
SumLen(f, n) == IF n = 0 THEN 0 ELSE Len(f[n].hist) + SumLen(f, n - 1)

\* The successful encrypts and decrypts so far.
OpsDone == SumLen(sender, NSessions) + SumLen(recipient, NRSessions)

\* A ciphertext altered in its final byte.
Tampered(ct) == [ct EXCEPT !.tag_ok = FALSE]

\* What the transport can hand to a decrypt: any ciphertext sent so far, in
\* any order and any number of times, unmodified or altered.
Deliverable == Sealed \cup {Tampered(ct) : ct \in Sealed}

\* The encapsulated keys sent so far, and a malformed one.
EncapsulatedKeys ==
    {sender[s].enc : s \in {t \in Sessions : sender[t].status # "none"}}
    \cup {InvalidPoint}

ProviderKeys ==
    {StaticPoint(RecipientKeyPairId), StaticPoint(OtherKeyPairId), InvalidPoint}

Init ==
    /\ sender_provider \in {SenderCryptoProvider_new(pk) : pk \in ProviderKeys}
    /\ recipient_provider = RecipientCryptoProvider_new
    /\ sender = [s \in Sessions |-> NoSide]
    /\ recipient = [r \in RSessions |-> NoSide]
    /\ ret = [op |-> "new", sess |-> 0, err |-> "Ok", ct |-> NoCt, aad |-> ""]

\* ---------------------------------------------------------------- actions

CreateEncryptor(s) ==
    /\ sender[s].status = "none"
    /\ \A t \in Sessions : t < s => sender[t].status # "none"
    /\ LET r == SenderCryptoProvider_create_encryptor(sender_provider, s)
       IN  /\ sender' = IF r.ok THEN store(sender, s, NewSide(r.enc, r.next))
                        ELSE sender
           /\ ret' = Ret("create_encryptor", s, r, NoCt, "")
    /\ UNCHANGED <<sender_provider, recipient_provider, recipient>>

CreateDecryptor(r, enc) ==
    /\ recipient[r].status = "none"
    /\ \A t \in RSessions : t < r => recipient[t].status # "none"
    /\ LET d == RecipientCryptoProvider_create_decryptor(recipient_provider, enc)
       IN  /\ recipient' = IF d.ok THEN store(recipient, r, NewSide(enc, d.next))
                           ELSE recipient
           /\ ret' = Ret("create_decryptor", r, d, NoCt, "")
    /\ UNCHANGED <<sender_provider, recipient_provider, sender>>

SenderEncryptCall(s, plaintext, associated_data) ==
    /\ \E self \in sender[s].objs :
        /\ self.role = "SenderRequestEncryptor"
        /\ LET r == SenderRequestEncryptor_encrypt(self, plaintext, associated_data)
               ct == IF r.ok THEN r.out ELSE NoCt
           IN  /\ sender' = store(sender, s,
                      after_call(sender[s], self, r,
                                 Entry("encrypt", self.sender_context.seq,
                                       plaintext, associated_data, ct)))
               /\ ret' = Ret("SenderRequestEncryptor.encrypt", s, r, ct, associated_data)
    /\ UNCHANGED <<sender_provider, recipient_provider, recipient>>

SenderEncrypt(s, plaintext, associated_data) ==
    /\ OpsDone < MaxOps
    /\ SenderEncryptCall(s, plaintext, associated_data)

SenderDecryptCall(s, ciphertext, associated_data) ==
    /\ \E self \in sender[s].objs :
        /\ self.role = "SenderResponseDecryptor"
        /\ LET r == SenderResponseDecryptor_decrypt(self, ciphertext, associated_data)
               pt == IF r.ok THEN r.out ELSE ""
           IN  /\ sender' = store(sender, s,
                      after_call(sender[s], self, r,
                                 Entry("decrypt", self.sender_response_context.seq,
                                       pt, associated_data, ciphertext)))
               /\ ret' = Ret("SenderResponseDecryptor.decrypt", s, r, ciphertext,
                             associated_data)
    /\ UNCHANGED <<sender_provider, recipient_provider, recipient>>

SenderDecrypt(s, ciphertext, associated_data) ==
    /\ OpsDone < MaxOps
    /\ SenderDecryptCall(s, ciphertext, associated_data)

RecipientDecryptCall(r, ciphertext, associated_data) ==
    /\ \E self \in recipient[r].objs :
        /\ self.role = "RecipientRequestDecryptor"
        /\ LET d == RecipientRequestDecryptor_decrypt(self, ciphertext, associated_data)
               pt == IF d.ok THEN d.out ELSE ""
           IN  /\ recipient' = store(recipient, r,
                      after_call(recipient[r], self, d,
                                 Entry("decrypt", self.recipient_context.seq,
                                       pt, associated_data, ciphertext)))
               /\ ret' = Ret("RecipientRequestDecryptor.decrypt", r, d, ciphertext,
                             associated_data)
    /\ UNCHANGED <<sender_provider, recipient_provider, sender>>

RecipientDecrypt(r, ciphertext, associated_data) ==
    /\ OpsDone < MaxOps
    /\ RecipientDecryptCall(r, ciphertext, associated_data)

RecipientEncryptCall(r, plaintext, associated_data) ==
    /\ \E self \in recipient[r].objs :
        /\ self.role = "RecipientResponseEncryptor"
        /\ LET d == RecipientResponseEncryptor_encrypt(self, plaintext, associated_data)
               ct == IF d.ok THEN d.out ELSE NoCt
           IN  /\ recipient' = store(recipient, r,
                      after_call(recipient[r], self, d,
                                 Entry("encrypt", self.recipient_response_context.seq,
                                       plaintext, associated_data, ct)))
               /\ ret' = Ret("RecipientResponseEncryptor.encrypt", r, d, ct,
                             associated_data)
    /\ UNCHANGED <<sender_provider, recipient_provider, sender>>

RecipientEncrypt(r, plaintext, associated_data) ==
    /\ OpsDone < MaxOps
    /\ RecipientEncryptCall(r, plaintext, associated_data)

\* The caller drops the wrapper it holds without calling it.
dropped(side) == [side EXCEPT !.objs = {}, !.status = "dropped"]

SenderDrop(s) ==
    /\ sender[s].objs # {}
    /\ sender' = store(sender, s, dropped(sender[s]))
    /\ ret' = [op |-> "drop", sess |-> s, err |-> "Ok", ct |-> NoCt, aad |-> ""]
    /\ UNCHANGED <<sender_provider, recipient_provider, recipient>>

RecipientDrop(r) ==
    /\ recipient[r].objs # {}
    /\ recipient' = store(recipient, r, dropped(recipient[r]))
    /\ ret' = [op |-> "drop", sess |-> r, err |-> "Ok", ct |-> NoCt, aad |-> ""]
    /\ UNCHANGED <<sender_provider, recipient_provider, sender>>

Next ==
    \/ \E s \in Sessions : CreateEncryptor(s)
    \/ \E r \in RSessions, enc \in EncapsulatedKeys : CreateDecryptor(r, enc)
    \/ \E s \in Sessions, m \in Messages : SenderEncrypt(s, m[1], m[2])
    \/ \E s \in Sessions, ct \in Deliverable, aad \in AADs : SenderDecrypt(s, ct, aad)
    \/ \E r \in RSessions, ct \in Deliverable, aad \in AADs : RecipientDecrypt(r, ct, aad)
    \/ \E r \in RSessions, m \in Messages : RecipientEncrypt(r, m[1], m[2])
    \/ \E s \in Sessions : SenderDrop(s)
    \/ \E r \in RSessions : RecipientDrop(r)

Spec == Init /\ [][Next]_vars

\* The ciphertext of the last encrypt recorded in h.
LatestSealed(h) ==
    LET e == Encrypts(h) IN IF e = <<>> THEN {} ELSE {e[Len(e)].ct}

\* One session used for as long as its counters allow: the first sender and
\* recipient sides exchange requests and responses without a budget, the
\* transport delivering the latest ciphertext of the other side with either
\* associated data.
LongSessionNext ==
    \/ CreateEncryptor(1)
    \/ \E enc \in EncapsulatedKeys : CreateDecryptor(1, enc)
    \/ SenderEncryptCall(1, "hello", "")
    \/ \E ct \in LatestSealed(recipient[1].hist), aad \in AADs :
           SenderDecryptCall(1, ct, aad)
    \/ \E ct \in LatestSealed(sender[1].hist), aad \in AADs :
           RecipientDecryptCall(1, ct, aad)
    \/ RecipientEncryptCall(1, "", "v=1")
    \/ SenderDrop(1)
    \/ RecipientDrop(1)

SpecLongSession == Init /\ [][LongSessionNext]_vars

\* ------------------------------------------------------------ properties

\* Recipient session r was created from the encapsulated key create_encryptor
\* returned for sender session s, and the sender's provider holds the public
\* key of the recipient's provider.
Matched(s, r) ==
    /\ sender[s].status # "none"
    /\ recipient[r].status # "none"
    /\ recipient[r].enc = sender[s].enc
    /\ sender_provider.serialized_recipient_public_key =
           RecipientCryptoProvider_get_serialized_public_key(recipient_provider)

AlternatesFrom(h, first, second) ==
    \A i \in DOMAIN h : h[i].op = IF i % 2 = 1 THEN first ELSE second

\* C1: on each side of a session the successful operations strictly
\* alternate: encrypt, decrypt, encrypt, ... on the sender side and decrypt,
\* encrypt, decrypt, ... on the recipient side; never two encrypts or two
\* decrypts in a row.
C1_Alternation ==
    /\ \A s \in Sessions : AlternatesFrom(sender[s].hist, "encrypt", "decrypt")
    /\ \A r \in RSessions : AlternatesFrom(recipient[r].hist, "decrypt", "encrypt")

\* A sender side that has encrypted, decrypted and encrypted again, and a
\* recipient side that has decrypted and encrypted.
C1_Witness ==
    /\ \E s \in Sessions : Len(sender[s].hist) >= 3
    /\ \E r \in RSessions : Len(recipient[r].hist) >= 2

\* The call was rejected by the AEAD: an error, no plaintext, no wrapper.
Rejected(d) == ~d.ok /\ d.err = "AuthenticationFailure" /\ DOMAIN d = {"ok", "err"}

\* C2: in a matched session, the k-th request the recipient decrypted is the
\* k-th request the sender encrypted and gave back its plaintext; a response
\* delivered unmodified gives the sender the plaintext the recipient
\* encrypted; and the next ciphertext in order, delivered unmodified with its
\* associated data, is accepted and yields exactly its plaintext.
C2_RoundTrip ==
    \A s \in Sessions, r \in RSessions :
        Matched(s, r) =>
            LET sE == Encrypts(sender[s].hist)
                sD == Decrypts(sender[s].hist)
                rE == Encrypts(recipient[r].hist)
                rD == Decrypts(recipient[r].hist)
            IN  /\ \A k \in DOMAIN rD :
                      /\ k <= Len(sE)
                      /\ rD[k].ct = sE[k].ct
                      /\ rD[k].aad = sE[k].aad
                      /\ rD[k].pt = sE[k].pt
                /\ \A k \in DOMAIN sD :
                      (k <= Len(rE) /\ sD[k].ct = rE[k].ct)
                          => (sD[k].aad = rE[k].aad /\ sD[k].pt = rE[k].pt)
                /\ \A self \in recipient[r].objs :
                      (self.role = "RecipientRequestDecryptor" /\ Len(rD) < Len(sE))
                          => LET e == sE[Len(rD) + 1]
                                 d == RecipientRequestDecryptor_decrypt(self, e.ct, e.aad)
                             IN  d.ok /\ d.out = e.pt
                /\ \A self \in sender[s].objs :
                      (self.role = "SenderResponseDecryptor" /\ Len(sD) < Len(rE))
                          => LET e == rE[Len(sD) + 1]
                                 d == SenderResponseDecryptor_decrypt(self, e.ct, e.aad)
                             IN  d.ok /\ d.out = e.pt

\* A matched session after a full round trip and a second request: the
\* recipient recovered the request, the sender recovered the response.
C2_Witness ==
    \E s \in Sessions, r \in RSessions :
        /\ Matched(s, r)
        /\ Len(sender[s].hist) >= 3
        /\ Len(recipient[r].hist) >= 2
        /\ recipient[r].hist[1].ct = sender[s].hist[1].ct
        /\ recipient[r].hist[1].pt = "hello"
        /\ sender[s].hist[2].ct = recipient[r].hist[2].ct
        /\ sender[s].hist[2].pt = ""

\* C3: a decrypt that fails authentication returns an error and no wrapper,
\* and the side it failed on holds no wrapper and never changes again.
C3_Poisoned ==
    [][/\ \A s \in Sessions :
             sender[s].status = "failed"
                 => (sender[s].objs = {} /\ sender'[s] = sender[s])
       /\ \A r \in RSessions :
             recipient[r].status = "failed"
                 => (recipient[r].objs = {} /\ recipient'[r] = recipient[r])
       /\ (ret' # ret /\ ret'.err = "AuthenticationFailure"
               /\ ret'.op = "SenderResponseDecryptor.decrypt")
             => /\ sender'[ret'.sess].objs = {}
                /\ sender'[ret'.sess].status = "failed"
                /\ sender'[ret'.sess].hist = sender[ret'.sess].hist
       /\ (ret' # ret /\ ret'.err = "AuthenticationFailure"
               /\ ret'.op = "RecipientRequestDecryptor.decrypt")
             => /\ recipient'[ret'.sess].objs = {}
                /\ recipient'[ret'.sess].status = "failed"
                /\ recipient'[ret'.sess].hist = recipient[ret'.sess].hist
      ]_vars

\* Both kinds of decryptor have failed authentication.
C3_Witness ==
    /\ \E s \in Sessions :
          sender[s].status = "failed" /\ sender[s].err = "AuthenticationFailure"
    /\ \E r \in RSessions :
          recipient[r].status = "failed" /\ recipient[r].err = "AuthenticationFailure"

\* C4: in a matched session a ciphertext sealed at sequence number i is
\* rejected by the receiving decryptor whenever that decryptor's context is
\* at a sequence number other than i, with any associated data; and a
\* ciphertext a side has already consumed is rejected by the decryptor it
\* holds afterwards.
C4_ReplayRejected ==
    /\ \A s \in Sessions, r \in RSessions :
          Matched(s, r) =>
              /\ \A self \in recipient[r].objs, i \in DOMAIN sender[s].hist, aad \in AADs :
                    (/\ self.role = "RecipientRequestDecryptor"
                     /\ sender[s].hist[i].op = "encrypt"
                     /\ sender[s].hist[i].seq # self.recipient_context.seq)
                        => Rejected(RecipientRequestDecryptor_decrypt(
                                        self, sender[s].hist[i].ct, aad))
              /\ \A self \in sender[s].objs, i \in DOMAIN recipient[r].hist, aad \in AADs :
                    (/\ self.role = "SenderResponseDecryptor"
                     /\ recipient[r].hist[i].op = "encrypt"
                     /\ recipient[r].hist[i].seq # self.sender_response_context.seq)
                        => Rejected(SenderResponseDecryptor_decrypt(
                                        self, recipient[r].hist[i].ct, aad))
    /\ \A r \in RSessions :
          \A self \in recipient[r].objs, i \in DOMAIN recipient[r].hist, aad \in AADs :
              (self.role = "RecipientRequestDecryptor" /\ recipient[r].hist[i].op = "decrypt")
                  => Rejected(RecipientRequestDecryptor_decrypt(
                                  self, recipient[r].hist[i].ct, aad))
    /\ \A s \in Sessions :
          \A self \in sender[s].objs, i \in DOMAIN sender[s].hist, aad \in AADs :
              (self.role = "SenderResponseDecryptor" /\ sender[s].hist[i].op = "decrypt")
                  => Rejected(SenderResponseDecryptor_decrypt(
                                  self, sender[s].hist[i].ct, aad))

\* The recipient was given, unmodified and with its own associated data, a
\* request it had already decrypted, and rejected it.
C4_Witness ==
    /\ ret.op = "RecipientRequestDecryptor.decrypt"
    /\ ret.err = "AuthenticationFailure"
    /\ ret.ct.tag_ok
    /\ ret.aad = ret.ct.aad
    /\ \E i \in DOMAIN recipient[ret.sess].hist :
          /\ recipient[ret.sess].hist[i].op = "decrypt"
          /\ recipient[ret.sess].hist[i].ct = ret.ct

\* C5: in a matched session a ciphertext presented to the matching decryptor
\* at the sequence number it was sealed at, with associated data other than
\* the data it was sealed with, is rejected and yields no plaintext.
C5_AadBinding ==
    \A s \in Sessions, r \in RSessions :
        Matched(s, r) =>
            /\ \A self \in recipient[r].objs, i \in DOMAIN sender[s].hist, aad \in AADs :
                  (/\ self.role = "RecipientRequestDecryptor"
                   /\ sender[s].hist[i].op = "encrypt"
                   /\ sender[s].hist[i].seq = self.recipient_context.seq
                   /\ aad # sender[s].hist[i].aad)
                      => Rejected(RecipientRequestDecryptor_decrypt(
                                      self, sender[s].hist[i].ct, aad))
            /\ \A self \in sender[s].objs, i \in DOMAIN recipient[r].hist, aad \in AADs :
                  (/\ self.role = "SenderResponseDecryptor"
                   /\ recipient[r].hist[i].op = "encrypt"
                   /\ recipient[r].hist[i].seq = self.sender_response_context.seq
                   /\ aad # recipient[r].hist[i].aad)
                      => Rejected(SenderResponseDecryptor_decrypt(
                                      self, recipient[r].hist[i].ct, aad))

\* The recipient was given the next request in order, unmodified, with other
\* associated data than the sender gave, and rejected it.
C5_Witness ==
    /\ ret.op = "RecipientRequestDecryptor.decrypt"
    /\ ret.err = "AuthenticationFailure"
    /\ ret.ct.tag_ok
    /\ ret.aad # ret.ct.aad
    /\ \E s \in Sessions :
          /\ Matched(s, ret.sess)
          /\ \E i \in DOMAIN sender[s].hist :
                /\ sender[s].hist[i].op = "encrypt"
                /\ sender[s].hist[i].ct = ret.ct
                /\ sender[s].hist[i].seq = Len(Decrypts(recipient[ret.sess].hist))

SeqsInOrder(h) == \A k \in DOMAIN h : h[k].seq = k - 1

\* C6: on each side the request context's counter is the number of requests
\* that side has sealed (sender) or opened (recipient), the response
\* context's counter is the number of responses it has opened (sender) or
\* sealed (recipient), and the N-th request and the N-th response were
\* sealed and opened at sequence number N-1.
C6_CounterLockstep ==
    /\ \A s \in Sessions :
          /\ \A self \in sender[s].objs :
                /\ self.sender_context.seq = Len(Encrypts(sender[s].hist))
                /\ self.sender_response_context.seq = Len(Decrypts(sender[s].hist))
          /\ SeqsInOrder(Encrypts(sender[s].hist))
          /\ SeqsInOrder(Decrypts(sender[s].hist))
    /\ \A r \in RSessions :
          /\ \A self \in recipient[r].objs :
                /\ self.recipient_context.seq = Len(Decrypts(recipient[r].hist))
                /\ self.recipient_response_context.seq = Len(Encrypts(recipient[r].hist))
          /\ SeqsInOrder(Encrypts(recipient[r].hist))
          /\ SeqsInOrder(Decrypts(recipient[r].hist))

\* A sender that has sealed its second request, after a recipient opened the
\* first request and sealed the first response.
C6_Witness ==
    /\ \E s \in Sessions : \E self \in sender[s].objs :
          self.sender_context.seq = 2 /\ self.sender_response_context.seq = 1
    /\ \E r \in RSessions : \E self \in recipient[r].objs :
          self.recipient_context.seq = 1 /\ self.recipient_response_context.seq = 1

SenderRoles == {"SenderRequestEncryptor", "SenderResponseDecryptor"}
RecipientRoles == {"RecipientRequestDecryptor", "RecipientResponseEncryptor"}

\* C7 as stated: at any instant of a session that was created and not ended
\* by dropping its wrapper, exactly one wrapper exists on each side.
C7_ExactlyOne ==
    /\ \A s \in Sessions :
          sender[s].status \in {"live", "failed"} => Cardinality(sender[s].objs) = 1
    /\ \A r \in RSessions :
          recipient[r].status \in {"live", "failed"} => Cardinality(recipient[r].objs) = 1

\* C7 amended: each side holds at most one wrapper, of a role of its side;
\* it holds exactly one from its creation until a call on it fails or the
\* caller drops the wrapper, and none after that.
C7_AtMostOne ==
    /\ \A s \in Sessions :
          /\ Cardinality(sender[s].objs) <= 1
          /\ \A self \in sender[s].objs : self.role \in SenderRoles
          /\ sender[s].status = "live" <=> Cardinality(sender[s].objs) = 1
    /\ \A r \in RSessions :
          /\ Cardinality(recipient[r].objs) <= 1
          /\ \A self \in recipient[r].objs : self.role \in RecipientRoles
          /\ recipient[r].status = "live" <=> Cardinality(recipient[r].objs) = 1

\* A matched session whose recipient side failed a decrypt and holds no
\* wrapper, while its sender side still holds its response decryptor.
C7_Witness ==
    \E s \in Sessions, r \in RSessions :
        /\ Matched(s, r)
        /\ recipient[r].status = "failed"
        /\ recipient[r].objs = {}
        /\ \E self \in sender[s].objs : self.role = "SenderResponseDecryptor"

\* C8: in a matched session the sender's and the recipient's request contexts
\* hold the same key and base nonce, and so do the two response contexts,
\* after creation and after every later encrypt and decrypt.
C8_KeyAgreement ==
    \A s \in Sessions, r \in RSessions :
        Matched(s, r) =>
            \A ws \in sender[s].objs, wr \in recipient[r].objs :
                /\ ws.sender_context.key = wr.recipient_context.key
                /\ ws.sender_context.base_nonce = wr.recipient_context.base_nonce
                /\ ws.sender_response_context.key = wr.recipient_response_context.key
                /\ ws.sender_response_context.base_nonce =
                       wr.recipient_response_context.base_nonce

\* A matched session in which both sides hold a wrapper after a request and
\* a response were exchanged.
C8_Witness ==
    \E s \in Sessions, r \in RSessions :
        /\ Matched(s, r)
        /\ sender[s].objs # {} /\ recipient[r].objs # {}
        /\ Len(sender[s].hist) >= 2 /\ Len(recipient[r].hist) >= 2

Count(h, n, op) == Cardinality({i \in 1..n : h[i].op = op})

\* C9: at every point of a recipient session the responses encrypted so far
\* are no more than the requests decrypted so far (the k-th response encrypt
\* comes after the k-th request decrypt), and a response encryptor is held
\* only right after a request decrypt.
C9_NoUnsolicitedResponse ==
    \A r \in RSessions :
        LET h == recipient[r].hist
        IN  /\ \A n \in 0..Len(h) : Count(h, n, "encrypt") <= Count(h, n, "decrypt")
            /\ \A self \in recipient[r].objs :
                  self.role = "RecipientResponseEncryptor"
                      => (Len(h) > 0 /\ h[Len(h)].op = "decrypt"
                          /\ Count(h, Len(h), "decrypt") = Count(h, Len(h), "encrypt") + 1)

\* A recipient that has encrypted a response.
C9_Witness ==
    \E r \in RSessions : Len(Encrypts(recipient[r].hist)) >= 1

SidesChanged ==
    {<<"sender", s>> : s \in {t \in Sessions : sender'[t] # sender[t]}}
    \cup {<<"recipient", r>> : r \in {t \in RSessions : recipient'[t] # recipient[t]}}

SenderOps ==
    {"create_encryptor", "SenderRequestEncryptor.encrypt", "SenderResponseDecryptor.decrypt"}
RecipientOps ==
    {"create_decryptor", "RecipientRequestDecryptor.decrypt",
     "RecipientResponseEncryptor.encrypt"}

\* C10: every call leaves both providers as they were and changes the state
\* of at most one side of one session, the one it was made on; every other
\* session keeps its wrapper, its counters and its history.
C10_SessionIndependence ==
    [][/\ sender_provider' = sender_provider
       /\ recipient_provider' = recipient_provider
       /\ Cardinality(SidesChanged) <= 1
       /\ ret'.op \in SenderOps =>
             (recipient' = recipient
              /\ \A s \in Sessions : s # ret'.sess => sender'[s] = sender[s])
       /\ ret'.op \in RecipientOps =>
             (sender' = sender
              /\ \A r \in RSessions : r # ret'.sess => recipient'[r] = recipient[r])
      ]_vars

\* Two sessions of the same providers, each with a request sealed by its
\* sender side and opened by its recipient side.
C10_Witness ==
    /\ \A s \in Sessions : s <= 2 => Len(sender[s].hist) >= 1
    /\ \A r \in RSessions : r <= 2 => Len(recipient[r].hist) >= 1
    /\ recipient[1].enc # recipient[2].enc

\* The contexts of every wrapper of sender side s, and every ciphertext the
\* side sealed or opened, are keyed from the side's encapsulated key.
SenderKeysFrom(s) ==
    /\ \A self \in sender[s].objs :
           /\ sender[s].enc \in self.sender_context.key.secret
           /\ sender[s].enc \in self.sender_response_context.key.secret
    /\ \A i \in DOMAIN sender[s].hist : sender[s].enc \in sender[s].hist[i].ct.key.secret

RecipientKeysFrom(r) ==
    /\ \A self \in recipient[r].objs :
           /\ recipient[r].enc \in self.recipient_context.key.secret
           /\ recipient[r].enc \in self.recipient_response_context.key.secret
    /\ \A i \in DOMAIN recipient[r].hist :
           recipient[r].enc \in recipient[r].hist[i].ct.key.secret

\* C11: a session has one encapsulated public key: it appears when
\* create_encryptor creates the sender side (a recipient side is created by
\* create_decryptor from a key some create_encryptor returned), no later call
\* changes it, and every wrapper's contexts and every message sealed or opened
\* in the session are keyed from that key.
C11_SingleEncapsulatedKey ==
    [][/\ \A s \in Sessions :
              /\ sender[s].status # "none"
                     => (sender'[s].status # "none" /\ sender'[s].enc = sender[s].enc)
              /\ (sender[s].status = "none" /\ sender'[s].status # "none")
                     => (ret'.op = "create_encryptor" /\ ret'.sess = s
                         /\ deserialize_public_key(sender'[s].enc).ok)
              /\ SenderKeysFrom(s)'
       /\ \A r \in RSessions :
              /\ recipient[r].status # "none"
                     => (recipient'[r].status # "none"
                         /\ recipient'[r].enc = recipient[r].enc)
              /\ (recipient[r].status = "none" /\ recipient'[r].status # "none")
                     => (ret'.op = "create_decryptor" /\ ret'.sess = r
                         /\ \E s \in Sessions : sender[s].status # "none"
                                                /\ sender[s].enc = recipient'[r].enc)
              /\ RecipientKeysFrom(r)'
      ]_vars

\* A matched session three operations into the sender side, with both sides
\* still holding their wrapper.
C11_Witness ==
    \E s \in Sessions, r \in RSessions :
        /\ Matched(s, r)
        /\ Len(sender[s].hist) >= 3
        /\ sender[s].objs # {} /\ recipient[r].objs # {}

\* No session was created from key material that does not parse.
NoSessionFromInvalidKey ==
    /\ ~deserialize_public_key(sender_provider.serialized_recipient_public_key).ok
           => \A s \in Sessions : sender[s].status = "none"
    /\ \A r \in RSessions :
           recipient[r].status # "none" => deserialize_public_key(recipient[r].enc).ok

\* C12: a create_encryptor on a provider whose recipient public key does not
\* parse, and a create_decryptor given an encapsulated key that does not
\* parse, return InvalidPublicKey and create no wrapper and no session; the
\* call changes neither provider nor any session, and after it a
\* create_decryptor on the same provider with a valid encapsulated key
\* succeeds.
C12_SetupFailure ==
    [][/\ ret'.err = "InvalidPublicKey" =>
              /\ ret'.op \in {"create_encryptor", "create_decryptor"}
              /\ sender' = sender /\ recipient' = recipient
              /\ sender_provider' = sender_provider
              /\ recipient_provider' = recipient_provider
              /\ ret'.op = "create_encryptor" => sender[ret'.sess].status = "none"
              /\ ret'.op = "create_decryptor" => recipient[ret'.sess].status = "none"
              /\ \A enc \in EncapsulatedKeys' \ {InvalidPoint} :
                     LET d == RecipientCryptoProvider_create_decryptor(
                                  recipient_provider', enc)
                     IN  d.ok /\ d.next.role = "RecipientRequestDecryptor"
       /\ (ret'.op = "create_encryptor" /\ ret'.err = "Ok")
              => deserialize_public_key(
                     sender_provider.serialized_recipient_public_key).ok
       /\ NoSessionFromInvalidKey'
      ]_vars

\* create_encryptor has just failed on a provider built from a public key
\* that does not parse, and no session exists.
C12_Witness ==
    /\ ret.op = "create_encryptor" /\ ret.err = "InvalidPublicKey"
    /\ sender_provider.serialized_recipient_public_key = InvalidPoint
    /\ \A s \in Sessions : sender[s].status = "none"

EncryptOps == {"SenderRequestEncryptor.encrypt", "RecipientResponseEncryptor.encrypt"}
DecryptOps == {"SenderResponseDecryptor.decrypt", "RecipientRequestDecryptor.decrypt"}

\* The context the operation op of wrapper self seals or opens under.
OpContext(self, op) ==
    CASE op = "SenderRequestEncryptor.encrypt" -> self.sender_context
      [] op = "SenderResponseDecryptor.decrypt" -> self.sender_response_context
      [] op = "RecipientRequestDecryptor.decrypt" -> self.recipient_context
      [] op = "RecipientResponseEncryptor.encrypt" -> self.recipient_response_context

\* The side the call recorded in ret' was made on, before and after the call.
CalledSide == IF ret'.op \in SenderOps THEN sender[ret'.sess] ELSE recipient[ret'.sess]
CalledSideAfter ==
    IF ret'.op \in SenderOps THEN sender'[ret'.sess] ELSE recipient'[ret'.sess]

\* No counter of a held wrapper has reached the last value, and no two
\* successful operations of one direction of a side ran at the same value.
CountersBelowLimit ==
    /\ \A s \in Sessions :
          /\ \A self \in sender[s].objs :
                /\ self.sender_context.seq < SeqLimit
                /\ self.sender_response_context.seq < SeqLimit
          /\ SeqsInOrder(Encrypts(sender[s].hist))
          /\ SeqsInOrder(Decrypts(sender[s].hist))
          /\ Len(sender[s].hist) < 2 * SeqLimit
    /\ \A r \in RSessions :
          /\ \A self \in recipient[r].objs :
                /\ self.recipient_context.seq < SeqLimit
                /\ self.recipient_response_context.seq < SeqLimit
          /\ SeqsInOrder(Encrypts(recipient[r].hist))
          /\ SeqsInOrder(Decrypts(recipient[r].hist))
          /\ Len(recipient[r].hist) < 2 * SeqLimit

\* C13: a call fails with NonceOverflow exactly when the increment would
\* bring its context's counter to the last value of the counter's width; an
\* encrypt that fails this way returns no ciphertext and no wrapper and
\* records nothing, the side stays without a wrapper from then on, and no
\* counter ever reaches the last value or returns to a value already used.
C13_NonceOverflow ==
    [][/\ ret'.err = "NonceOverflow" =>
              /\ ret'.op \in EncryptOps \cup DecryptOps
              /\ ret'.op \in EncryptOps => ret'.ct = NoCt
              /\ \E self \in CalledSide.objs : OpContext(self, ret'.op).seq + 1 = SeqLimit
              /\ CalledSideAfter.objs = {}
              /\ CalledSideAfter.status = "failed"
              /\ CalledSideAfter.err = "NonceOverflow"
              /\ CalledSideAfter.hist = CalledSide.hist
       /\ (ret'.op \in EncryptOps /\ ret'.err = "Ok") =>
              /\ ret'.ct.tag_ok
              /\ \E self \in CalledSide.objs : OpContext(self, ret'.op).seq + 1 < SeqLimit
       /\ \A s \in Sessions :
              sender[s].status = "failed" => sender'[s] = sender[s]
       /\ \A r \in RSessions :
              recipient[r].status = "failed" => recipient'[r] = recipient[r]
       /\ CountersBelowLimit'
      ]_vars

\* The sender's encrypt has just failed with NonceOverflow after sealing as
\* many requests as the counter allows; the sender side holds no wrapper.
C13_Witness ==
    /\ ret.op = "SenderRequestEncryptor.encrypt"
    /\ ret.err = "NonceOverflow"
    /\ ret.ct = NoCt
    /\ sender[ret.sess].objs = {}
    /\ Len(Encrypts(sender[ret.sess].hist)) = SeqLimit - 1

\* The k-th seal of e ran under the nonce base XOR (k - 1).
NoncesFollowSeq(e, base) ==
    \A k \in DOMAIN e : e[k].ct.nonce = XorBits(base, k - 1, NonceBits)

KeyNonce(entry) == <<entry.ct.key, entry.ct.nonce>>

\* No two seals of e, and no seal of e and seal of f, share a (key, nonce) pair.
DistinctKeyNonces(e, f) ==
    /\ \A i, j \in DOMAIN e : i # j => KeyNonce(e[i]) # KeyNonce(e[j])
    /\ \A i \in DOMAIN e, j \in DOMAIN f : KeyNonce(e[i]) # KeyNonce(f[j])

\* C14: message N (from 0) sealed in a direction of a session runs under
\* the nonce base_nonce XOR N of that direction's context, and no two seals
\* of a session run under the same (key, nonce) pair: not two requests, not
\* two responses, and not a request and a response.
C14_NonceUniqueness ==
    /\ \A s \in Sessions :
          LET sE == Encrypts(sender[s].hist)
          IN  /\ \A self \in sender[s].objs :
                     NoncesFollowSeq(sE, self.sender_context.base_nonce)
              /\ sE # <<>> => NoncesFollowSeq(sE, sE[1].ct.nonce)
              /\ DistinctKeyNonces(sE, <<>>)
    /\ \A r \in RSessions :
          LET rE == Encrypts(recipient[r].hist)
          IN  /\ \A self \in recipient[r].objs :
                     NoncesFollowSeq(rE, self.recipient_response_context.base_nonce)
              /\ rE # <<>> => NoncesFollowSeq(rE, rE[1].ct.nonce)
              /\ DistinctKeyNonces(rE, <<>>)
    /\ \A s \in Sessions, r \in RSessions :
          (sender[s].status # "none" /\ recipient[r].status # "none"
           /\ recipient[r].enc = sender[s].enc)
              => DistinctKeyNonces(Encrypts(sender[s].hist), Encrypts(recipient[r].hist))

\* A matched session whose sender has sealed two requests and whose
\* recipient has sealed a response.
C14_Witness ==
    \E s \in Sessions, r \in RSessions :
        /\ Matched(s, r)
        /\ Len(Encrypts(sender[s].hist)) = 2
        /\ Len(Encrypts(recipient[r].hist)) = 1

\* The request and the response context of a wrapper of either side.
ReqCtx(self) ==
    IF "sender_context" \in DOMAIN self THEN self.sender_context
    ELSE self.recipient_context
RespCtx(self) ==
    IF "sender_response_context" \in DOMAIN self THEN self.sender_response_context
    ELSE self.recipient_response_context

RequestOps == {"SenderRequestEncryptor.encrypt", "RecipientRequestDecryptor.decrypt"}

SameKeyMaterial(self, next) ==
    /\ ReqCtx(next).key = ReqCtx(self).key
    /\ ReqCtx(next).base_nonce = ReqCtx(self).base_nonce
    /\ RespCtx(next).key = RespCtx(self).key
    /\ RespCtx(next).base_nonce = RespCtx(self).base_nonce

\* C15: a successful operation returns a wrapper in which its own
\* direction's context has advanced by one and the other direction's context
\* is the one the consumed wrapper held (a request encrypt or decrypt leaves
\* the response context alone, a response encrypt or decrypt leaves the
\* request context alone); across every step the keys and base nonces of
\* both contexts of a side stay the same.
C15_DirectionFrame ==
    [][/\ (ret'.op \in EncryptOps \cup DecryptOps /\ ret'.err = "Ok") =>
              \A self \in CalledSide.objs, next \in CalledSideAfter.objs :
                  IF ret'.op \in RequestOps
                  THEN /\ RespCtx(next) = RespCtx(self)
                       /\ ReqCtx(next).seq = ReqCtx(self).seq + 1
                  ELSE /\ ReqCtx(next) = ReqCtx(self)
                       /\ RespCtx(next).seq = RespCtx(self).seq + 1
       /\ \A s \in Sessions : \A self \in sender[s].objs, next \in sender'[s].objs :
              SameKeyMaterial(self, next)
       /\ \A r \in RSessions : \A self \in recipient[r].objs, next \in recipient'[r].objs :
              SameKeyMaterial(self, next)
      ]_vars

\* The sender has just opened a response and holds an encryptor whose two
\* contexts have each advanced once; the recipient holds a decryptor in the
\* same position.
C15_Witness ==
    /\ ret.op = "SenderResponseDecryptor.decrypt" /\ ret.err = "Ok"
    /\ \E self \in sender[ret.sess].objs :
           ReqCtx(self).seq = 1 /\ RespCtx(self).seq = 1
    /\ \E r \in RSessions : \E self \in recipient[r].objs :
           ReqCtx(self).seq = 1 /\ RespCtx(self).seq = 1

\* The contexts the decryptors in hand would open under.
OpenContexts ==
    UNION ({{self.sender_response_context :
                 self \in {w \in sender[s].objs : w.role = "SenderResponseDecryptor"}}
               : s \in Sessions}
           \cup {{self.recipient_context :
                      self \in {w \in recipient[r].objs :
                                    w.role = "RecipientRequestDecryptor"}}
                    : r \in RSessions})

\* C16: an open that fails authentication leaves its context as it was, in
\* particular its counter and so the nonce of the next open, and only an
\* open that succeeds advances the counter, by one; the message that was due
\* is still accepted by the context after the failed open.
C16_FailedOpenKeepsSeq ==
    \A ctx \in OpenContexts : \A ct \in Deliverable, aad \in AADs :
        LET o == open(ctx, ct, aad)
        IN  IF o.ok
            THEN o.ctx.seq = ctx.seq + 1
            ELSE /\ o.err = "AuthenticationFailure"
                 /\ o.ctx.seq = ctx.seq
                 /\ compute_nonce(o.ctx) = compute_nonce(ctx)
                 /\ \A ct2 \in Deliverable, aad2 \in AADs :
                        open(ctx, ct2, aad2).ok => open(o.ctx, ct2, aad2).ok

\* A decrypt has just failed authentication; a recipient holds a request
\* decryptor one message in, which rejects a ciphertext that was sent, and a
\* decryptor in hand rejects one sent ciphertext and accepts another.
C16_Witness ==
    /\ ret.err = "AuthenticationFailure"
    /\ \E r \in RSessions : \E self \in recipient[r].objs :
           /\ self.role = "RecipientRequestDecryptor"
           /\ self.recipient_context.seq = 1
           /\ \E ct \in Sealed, aad \in AADs : ~open(self.recipient_context, ct, aad).ok
    /\ \E ctx \in OpenContexts :
           /\ \E ct \in Sealed, aad \in AADs : ~open(ctx, ct, aad).ok
           /\ \E ct \in Sealed, aad \in AADs : open(ctx, ct, aad).ok

\* An operation of the side can be called: the caller holds the wrapper of
\* some operation, with whatever input.
SenderOpAvailable(s) ==
    ENABLED (\/ \E m \in Messages : SenderEncryptCall(s, m[1], m[2])
             \/ \E ct \in Deliverable \cup {NoCt}, aad \in AADs :
                    SenderDecryptCall(s, ct, aad))
RecipientOpAvailable(r) ==
    ENABLED (\/ \E m \in Messages : RecipientEncryptCall(r, m[1], m[2])
             \/ \E ct \in Deliverable \cup {NoCt}, aad \in AADs :
                    RecipientDecryptCall(r, ct, aad))

\* C17 as stated: the state machine of a side has no terminal state: on
\* every side that was created and that the caller has not dropped, a next
\* operation is available.
C17_NoTerminalState ==
    /\ \A s \in Sessions :
          sender[s].status \in {"live", "failed"} => SenderOpAvailable(s)
    /\ \A r \in RSessions :
          recipient[r].status \in {"live", "failed"} => RecipientOpAvailable(r)

\* The role the state machine of a side is in after n successful operations.
SenderStateAfter(n) ==
    IF n % 2 = 0 THEN "SenderRequestEncryptor" ELSE "SenderResponseDecryptor"
RecipientStateAfter(n) ==
    IF n % 2 = 0 THEN "RecipientRequestDecryptor" ELSE "RecipientResponseEncryptor"

\* C17 amended: on a side no call has failed on and the caller has not
\* dropped, the next operation of the state machine is available, after any
\* number of operations; a side whose wrapper was dropped, and a side on
\* which a call failed (authentication failure or nonce overflow), is in a
\* terminal state: no operation is available on it.
C17_TerminalOnlyByFailureOrDrop ==
    /\ \A s \in Sessions :
          /\ sender[s].status = "live" =>
                 /\ SenderOpAvailable(s)
                 /\ \A self \in sender[s].objs :
                        self.role = SenderStateAfter(Len(sender[s].hist))
          /\ sender[s].status \in {"failed", "dropped"} => ~SenderOpAvailable(s)
          /\ sender[s].status = "failed" =>
                 sender[s].err \in {"AuthenticationFailure", "NonceOverflow"}
    /\ \A r \in RSessions :
          /\ recipient[r].status = "live" =>
                 /\ RecipientOpAvailable(r)
                 /\ \A self \in recipient[r].objs :
                        self.role = RecipientStateAfter(Len(recipient[r].hist))
          /\ recipient[r].status \in {"failed", "dropped"} => ~RecipientOpAvailable(r)
          /\ recipient[r].status = "failed" =>
                 recipient[r].err \in {"AuthenticationFailure", "NonceOverflow"}

\* A matched session whose recipient side ended by a failed decrypt, not by
\* a drop, while the sender side is live with a request sealed.
C17_Witness ==
    \E s \in Sessions, r \in RSessions :
        /\ Matched(s, r)
        /\ recipient[r].status = "failed" /\ recipient[r].objs = {}
        /\ sender[s].status = "live" /\ Len(sender[s].hist) >= 1

\* The requests and the responses sealed so far, in any session.
RequestCts == UNION {SealedIn(sender[s].hist) : s \in Sessions}
ResponseCts == UNION {SealedIn(recipient[r].hist) : r \in RSessions}

\* The sequence numbers a context can be at.
Seqs == 0..(SeqLimit - 1)

\* C18: no request ciphertext is accepted by a decrypt that opens under a
\* response context, and no response ciphertext by a decrypt that opens under
\* a request context: a sender's response decryptor rejects every request
\* (its own included) and a recipient's request decryptor rejects every
\* response (its own included), with any associated data, at the sequence
\* number the decryptor is at and at every other one.
C18_DirectionSeparation ==
    /\ \A s \in Sessions : \A self \in sender[s].objs :
          \A ct \in RequestCts, aad \in AADs, n \in Seqs :
              Rejected(SenderResponseDecryptor_decrypt(
                           [self EXCEPT !.sender_response_context.seq = n], ct, aad))
    /\ \A r \in RSessions : \A self \in recipient[r].objs :
          \A ct \in ResponseCts, aad \in AADs, n \in Seqs :
              Rejected(RecipientRequestDecryptor_decrypt(
                           [self EXCEPT !.recipient_context.seq = n], ct, aad))

\* A sender was handed back its own request, unmodified and with the
\* associated data it was sealed under, and the response decrypt rejected it.
C18_Witness ==
    /\ ret.op = "SenderResponseDecryptor.decrypt"
    /\ ret.err = "AuthenticationFailure"
    /\ ret.ct \in SealedIn(sender[ret.sess].hist)
    /\ ret.aad = ret.ct.aad
    /\ ResponseCts # {}

\* Sender side s and recipient side r are the two sides of one session, and
\* each accepted only ciphertexts the other one sealed.
HonestDelivery(s, r) ==
    /\ sender[s].status # "none" /\ recipient[r].status # "none"
    /\ recipient[r].enc = sender[s].enc
    /\ \A i \in DOMAIN sender[s].hist :
           sender[s].hist[i].op = "decrypt"
               => sender[s].hist[i].ct \in SealedIn(recipient[r].hist)
    /\ \A i \in DOMAIN recipient[r].hist :
           recipient[r].hist[i].op = "decrypt"
               => recipient[r].hist[i].ct \in SealedIn(sender[s].hist)

\* C19: between the two sides of a session with honest delivery, the
\* recipient's request counter is the sender's or one behind it, and the
\* sender's response counter is the recipient's or one behind it (by the
\* operations done, and by the contexts of the wrappers in hand); on each
\* side the request counter is the response counter when the side holds a
\* SenderRequestEncryptor or RecipientRequestDecryptor, and one more when it
\* holds a SenderResponseDecryptor or RecipientResponseEncryptor.
C19_CrossSideSync ==
    /\ \A s \in Sessions, r \in RSessions :
          HonestDelivery(s, r) =>
              LET sReq == Len(Encrypts(sender[s].hist))
                  sResp == Len(Decrypts(sender[s].hist))
                  rReq == Len(Decrypts(recipient[r].hist))
                  rResp == Len(Encrypts(recipient[r].hist))
              IN  /\ rReq <= sReq /\ sReq <= rReq + 1
                  /\ sResp <= rResp /\ rResp <= sResp + 1
                  /\ \A a \in sender[s].objs, b \in recipient[r].objs :
                         /\ ReqCtx(b).seq <= ReqCtx(a).seq
                         /\ ReqCtx(a).seq <= ReqCtx(b).seq + 1
                         /\ RespCtx(a).seq <= RespCtx(b).seq
                         /\ RespCtx(b).seq <= RespCtx(a).seq + 1
    /\ \A s \in Sessions : \A self \in sender[s].objs :
          ReqCtx(self).seq - RespCtx(self).seq =
              IF self.role = "SenderRequestEncryptor" THEN 0 ELSE 1
    /\ \A r \in RSessions : \A self \in recipient[r].objs :
          ReqCtx(self).seq - RespCtx(self).seq =
              IF self.role = "RecipientRequestDecryptor" THEN 0 ELSE 1

\* A session with honest delivery in which the sender has sealed its second
\* request, one ahead of the recipient, after one response went back.
C19_Witness ==
    \E s \in Sessions, r \in RSessions :
        /\ HonestDelivery(s, r)
        /\ \E a \in sender[s].objs, b \in recipient[r].objs :
               /\ ReqCtx(a).seq = 2 /\ ReqCtx(b).seq = 1
               /\ RespCtx(a).seq = 1 /\ RespCtx(b).seq = 1

\* The recipient sides created from the encapsulated key of sender side s.
RecipientsOf(s) ==
    {r \in RSessions : recipient[r].status # "none" /\ recipient[r].enc = sender[s].enc}

\* Every ciphertext sealed in the session of sender side s, by either side.
SealedInSession(s) ==
    SealedIn(sender[s].hist)
    \cup UNION {SealedIn(recipient[r].hist) : r \in RecipientsOf(s)}

\* C20: for two distinct sessions created by two create_encryptor calls of
\* one provider, every ciphertext sealed in one session is rejected by
\* every decrypt of the other session, on the sender side and on the
\* recipient sides created from its encapsulated key, with any associated
\* data and with the decryptor's counter at any value.
C20_CrossSessionIsolation ==
    \A s1, s2 \in Sessions :
        (s1 # s2 /\ sender[s1].status # "none" /\ sender[s2].status # "none") =>
            \A ct \in SealedInSession(s1), aad \in AADs, n \in Seqs :
                /\ \A self \in sender[s2].objs :
                       Rejected(SenderResponseDecryptor_decrypt(
                           [self EXCEPT !.sender_response_context.seq = n], ct, aad))
                /\ \A r \in RecipientsOf(s2) : \A self \in recipient[r].objs :
                       Rejected(RecipientRequestDecryptor_decrypt(
                           [self EXCEPT !.recipient_context.seq = n], ct, aad))

\* The first request of one session was handed, unmodified and with its
\* associated data, to the recipient of another session before it opened
\* anything, and was rejected.
C20_Witness ==
    \E s1, s2 \in Sessions :
        /\ s1 # s2
        /\ sender[s1].status # "none" /\ sender[s2].status # "none"
        /\ ret.op = "RecipientRequestDecryptor.decrypt"
        /\ ret.err = "AuthenticationFailure"
        /\ ret.sess \in RecipientsOf(s2)
        /\ recipient[ret.sess].hist = <<>>
        /\ Len(sender[s1].hist) >= 1
        /\ ret.ct = sender[s1].hist[1].ct
        /\ ret.aad = ret.ct.aad
        /\ sender_provider.serialized_recipient_public_key =
               RecipientCryptoProvider_get_serialized_public_key(recipient_provider)

====
